---- MODULE Spec2Model ----
(***************************************************************************)
(* A model of the BUSE RAID5 engine of src/raid5.c: the startup code of    *)
(* main (slot table, capacity, optional rebuild), the read, write and      *)
(* flush callbacks, and the disconnect that ends a run.                    *)
(*                                                                         *)
(* A back-end file is a sequence of blocks.  A block of block_size bytes   *)
(* is modelled by a natural number whose bits stand for the bytes' bits;   *)
(* the byte-wise ^ of the code is the bit-wise XOR below.  Offsets and     *)
(* lengths are in bytes, as in the code.                                   *)
(***************************************************************************)
EXTENDS Integers, Sequences, FiniteSets, TLC

VARIABLES
    disk,             \* the back-end files: slot -> sequence of blocks
    pc,               \* "off": no process; "serving": inside buse_main
    num_devices,      \* the globals of raid5.c, lines 22-27
    dev_missing,
    rebuild_dev,
    block_size,
    raid_device_size,
    res               \* the operation that just completed, until handed back

vars == <<disk, pc, num_devices, dev_missing, rebuild_dev, block_size,
          raid_device_size, res>>

(* ------------------------------ bounds -------------------------------- *)

MAX_DEVICES == 16

\* device counts 3 .. MaxDevs
MaxDevs == 4
\* blocks per back-end file 1 .. MaxBlocks
MaxBlocks == 2
\* total number of back-end blocks (device count * blocks per file)
MaxCells == 6
\* the BLOCKSIZE argument, in bytes
BlockSizeArg == 2
\* longest client request, in blocks
MaxLen == 3

\* the values a block takes
BlockValues == {0, 1}

Slots(n) == 0 .. (n - 1)

(* ----------------------------- XOR kernel ----------------------------- *)

RECURSIVE XOR(_, _)
XOR(a, b) ==
    IF a = 0 THEN b
    ELSE IF b = 0 THEN a
    ELSE (((a % 2) + (b % 2)) % 2) + 2 * XOR(a \div 2, b \div 2)

(* --------------------------- back-end I/O ----------------------------- *)
(* io = [disk, log, steps, failAt]: the files, the back-end calls issued   *)
(* by the running operation, the loop iterations it began, and which call  *)
(* (by position, 0 = none) the environment makes fail.                     *)
(* c = [n, bs, missing, rebuild, size]: the globals the operation reads.   *)

NewIo(d, failAt) == [disk |-> d, log |-> <<>>, steps |-> <<>>, failAt |-> failAt]

IoIssue(io, kind, i, off, ok) ==
    [io EXCEPT !.log = Append(@, [kind |-> kind, dev |-> i, off |-> off, ok |-> ok,
                                  step |-> Len(io.steps)])]

\* the call being issued is the one the environment fails
EnvFails(io) == Len(io.log) + 1 = io.failAt

\* pread(dev_fd[i], ., block_size, off) != block_size is an error: on fd -1
\* (a missing slot), past the end of the file, or when the device fails
Pread(c, io, i, off) ==
    LET blk == off \div c.bs
        ok  == /\ ~c.missing[i]
               /\ ~EnvFails(io)
               /\ blk < Len(io.disk[i])
    IN [ok  |-> ok,
        val |-> IF ok THEN io.disk[i][blk + 1] ELSE 0,
        io  |-> IoIssue(io, "pread", i, off, ok)]

Pwrite(c, io, i, off, v) ==
    LET blk == off \div c.bs
        ok  == /\ ~c.missing[i]
               /\ ~EnvFails(io)
               /\ blk < Len(io.disk[i])
        io1 == IF ok THEN [io EXCEPT !.disk[i][blk + 1] = v] ELSE io
    IN [ok |-> ok, io |-> IoIssue(io1, "pwrite", i, off, ok)]

\* fsync's result is ignored by the caller
Fsync(c, io, i) == IoIssue(io, "fsync", i, 0, ~c.missing[i] /\ ~EnvFails(io))

BeginStep(io, path, offset, len, stripe, parity) ==
    [io EXCEPT !.steps = Append(@, [path |-> path, offset |-> offset, len |-> len,
                                    stripe |-> stripe, parity |-> parity])]

(* ------------------------------ geometry ------------------------------ *)

\* as ReadPlacement, but a position equal to the parity slot is not moved up
ReadPlacementAfterParity(c, offset) ==
    LET logical_block == offset \div c.bs
        stripe        == logical_block \div (c.n - 1)
        pos           == logical_block % (c.n - 1)
        parity_disk   == stripe % c.n
    IN [logical_block |-> logical_block,
        stripe        |-> stripe,
        pos           |-> pos,
        parity_disk   |-> parity_disk,
        data_disk     |-> IF pos > parity_disk THEN pos + 1 ELSE pos,
        phys_offset   |-> stripe * c.bs]

\* xmp_read, lines 195-200
ReadPlacement(c, offset) ==
    LET logical_block == offset \div c.bs
        stripe        == logical_block \div (c.n - 1)
        pos           == logical_block % (c.n - 1)
        parity_disk   == stripe % c.n
    IN [logical_block |-> logical_block,
        stripe        |-> stripe,
        pos           |-> pos,
        parity_disk   |-> parity_disk,
        data_disk     |-> IF pos >= parity_disk THEN pos + 1 ELSE pos,
        phys_offset   |-> stripe * c.bs]

\* as WritePlacement, but the position is taken as the slot, parity or not
WritePlacementNoSkip(c, offset) ==
    LET logical_block == offset \div c.bs
        stripe        == logical_block \div (c.n - 1)
        pos           == logical_block % (c.n - 1)
        parity_disk   == stripe % c.n
    IN [logical_block |-> logical_block,
        stripe        |-> stripe,
        pos           |-> pos,
        parity_disk   |-> parity_disk,
        data_disk     |-> pos,
        phys_offset   |-> stripe * c.bs]

\* xmp_write, read-modify-write path, lines 294-299
WritePlacement(c, offset) ==
    LET logical_block == offset \div c.bs
        stripe        == logical_block \div (c.n - 1)
        pos           == logical_block % (c.n - 1)
        parity_disk   == stripe % c.n
    IN [logical_block |-> logical_block,
        stripe        |-> stripe,
        pos           |-> pos,
        parity_disk   |-> parity_disk,
        data_disk     |-> IF pos >= parity_disk THEN pos + 1 ELSE pos,
        phys_offset   |-> stripe * c.bs]

\* xmp_write, full-stripe path, lines 262-264
FullStripePlacement(c, offset) ==
    LET stripe == offset \div ((c.n - 1) * c.bs)
    IN [stripe      |-> stripe,
        phys_offset |-> stripe * c.bs,
        parity_disk |-> stripe % c.n]

FullStripeDataDiskAfterParity(d, parity_disk) == IF d > parity_disk THEN d + 1 ELSE d

\* xmp_write, full-stripe path, line 268
FullStripeDataDisk(d, parity_disk) == IF d >= parity_disk THEN d + 1 ELSE d

(* ------------------------------ xmp_read ------------------------------ *)

Failed(io) == [ok |-> FALSE, val |-> 0, io |-> io]

\* as ReadPeersLoop, but the last slot is left out of the XOR
RECURSIVE ReadPeersLoopShort(_, _, _, _, _)
ReadPeersLoopShort(c, io, p, i, temp_block) ==
    IF i >= c.n - 1 THEN [ok |-> TRUE, val |-> temp_block, io |-> io]
    ELSE IF i = p.parity_disk \/ i = p.data_disk
         THEN ReadPeersLoopShort(c, io, p, i + 1, temp_block)
    ELSE IF c.missing[i] THEN Failed(io)
    ELSE LET r == Pread(c, io, i, p.phys_offset)
         IN IF ~r.ok THEN Failed(r.io)
            ELSE ReadPeersLoopShort(c, r.io, p, i + 1, XOR(temp_block, r.val))

\* as ReadPeersLoop, but a missing peer is passed over
RECURSIVE ReadPeersLoopSkipMissing(_, _, _, _, _)
ReadPeersLoopSkipMissing(c, io, p, i, temp_block) ==
    IF i >= c.n THEN [ok |-> TRUE, val |-> temp_block, io |-> io]
    ELSE IF i = p.parity_disk \/ i = p.data_disk \/ c.missing[i]
         THEN ReadPeersLoopSkipMissing(c, io, p, i + 1, temp_block)
    ELSE LET r == Pread(c, io, i, p.phys_offset)
         IN IF ~r.ok THEN Failed(r.io)
            ELSE ReadPeersLoopSkipMissing(c, r.io, p, i + 1, XOR(temp_block, r.val))

\* lines 217-232: XOR the peers' blocks into the parity block
RECURSIVE ReadPeersLoop(_, _, _, _, _)
ReadPeersLoop(c, io, p, i, temp_block) ==
    IF i >= c.n THEN [ok |-> TRUE, val |-> temp_block, io |-> io]
    ELSE IF i = p.parity_disk \/ i = p.data_disk
         THEN ReadPeersLoop(c, io, p, i + 1, temp_block)
    ELSE IF c.missing[i] THEN Failed(io)
    ELSE LET r == Pread(c, io, i, p.phys_offset)
         IN IF ~r.ok THEN Failed(r.io)
            ELSE ReadPeersLoop(c, r.io, p, i + 1, XOR(temp_block, r.val))

\* lines 202-233: one block, direct or reconstructed
ReadBlock(c, io, p) ==
    IF ~c.missing[p.data_disk]
    THEN LET r == Pread(c, io, p.data_disk, p.phys_offset)
         IN IF r.ok THEN r ELSE Failed(r.io)
    ELSE IF c.missing[p.parity_disk] THEN Failed(io)
    ELSE LET r == Pread(c, io, p.parity_disk, p.phys_offset)
         IN IF ~r.ok THEN Failed(r.io)
            ELSE ReadPeersLoop(c, r.io, p, 0, r.val)

\* lines 194-239: the while loop; buffer collects the blocks copied out
RECURSIVE ReadLoop(_, _, _, _, _)
ReadLoop(c, io, buffer, len, offset) ==
    IF len <= 0 THEN [ret |-> 0, buf |-> buffer, io |-> io]
    ELSE LET p   == ReadPlacement(c, offset)
             io1 == BeginStep(io, "read", offset, len, p.stripe, p.parity_disk)
             r   == ReadBlock(c, io1, p)
         IN IF ~r.ok THEN [ret |-> -1, buf |-> buffer, io |-> r.io]
            ELSE ReadLoop(c, r.io, Append(buffer, r.val), len - c.bs, offset + c.bs)

xmp_read(c, d, len, offset, failAt) == ReadLoop(c, NewIo(d, failAt), <<>>, len, offset)

(* ------------------------------ xmp_write ----------------------------- *)

\* as FullStripeDataLoop, but a block whose slot is missing is left out of the parity
RECURSIVE FullStripeDataLoopWritten(_, _, _, _, _, _)
FullStripeDataLoopWritten(c, io, buffer, fp, d, parity_block) ==
    IF d >= c.n - 1 THEN [ok |-> TRUE, val |-> parity_block, io |-> io]
    ELSE LET data_disk == FullStripeDataDisk(d, fp.parity_disk)
             acc       == XOR(parity_block, buffer[d + 1])
         IN IF ~c.missing[data_disk]
            THEN LET w == Pwrite(c, io, data_disk, fp.phys_offset, buffer[d + 1])
                 IN IF ~w.ok THEN Failed(w.io)
                    ELSE FullStripeDataLoopWritten(c, w.io, buffer, fp, d + 1, acc)
            ELSE FullStripeDataLoopWritten(c, io, buffer, fp, d + 1, parity_block)

\* lines 267-278: write the stripe's data blocks, accumulate their XOR
RECURSIVE FullStripeDataLoop(_, _, _, _, _, _)
FullStripeDataLoop(c, io, buffer, fp, d, parity_block) ==
    IF d >= c.n - 1 THEN [ok |-> TRUE, val |-> parity_block, io |-> io]
    ELSE LET data_disk == FullStripeDataDisk(d, fp.parity_disk)
             acc       == XOR(parity_block, buffer[d + 1])
         IN IF ~c.missing[data_disk]
            THEN LET w == Pwrite(c, io, data_disk, fp.phys_offset, buffer[d + 1])
                 IN IF ~w.ok THEN Failed(w.io)
                    ELSE FullStripeDataLoop(c, w.io, buffer, fp, d + 1, acc)
            ELSE FullStripeDataLoop(c, io, buffer, fp, d + 1, acc)

\* lines 262-287: one full stripe; ok iff the loop goes on (lines 288-291)
FullStripeWrite(c, io, buffer, offset) ==
    LET fp == FullStripePlacement(c, offset)
        r  == FullStripeDataLoop(c, io, buffer, fp, 0, 0)
    IN IF ~r.ok THEN [ok |-> FALSE, io |-> r.io]
       ELSE IF ~c.missing[fp.parity_disk]
            THEN Pwrite(c, r.io, fp.parity_disk, fp.phys_offset, r.val)
            ELSE [ok |-> FALSE, io |-> r.io]

\* as ReadOldParity, but the result of the pread is not checked
ReadOldParityUnchecked(c, io, p) ==
    IF ~c.missing[p.parity_disk]
    THEN [Pread(c, io, p.parity_disk, p.phys_offset) EXCEPT !.ok = TRUE]
    ELSE [ok |-> TRUE, val |-> 0, io |-> io]

\* lines 301-309
ReadOldParity(c, io, p) ==
    IF ~c.missing[p.parity_disk]
    THEN Pread(c, io, p.parity_disk, p.phys_offset)
    ELSE [ok |-> TRUE, val |-> 0, io |-> io]

ReadOldDataUnguarded(c, io, p) == Pread(c, io, p.data_disk, p.phys_offset)

\* lines 311-319
ReadOldData(c, io, p) ==
    IF ~c.missing[p.data_disk]
    THEN Pread(c, io, p.data_disk, p.phys_offset)
    ELSE [ok |-> TRUE, val |-> 0, io |-> io]

NewParityNoOldData(old_parity, old_data, new_data) == XOR(old_parity, new_data)

\* lines 321-325
NewParity(old_parity, old_data, new_data) == XOR(XOR(old_parity, old_data), new_data)

\* as WriteNewData, but nothing is written when the parity slot is missing
WriteNewDataParityFirst(c, io, p, new_data) ==
    IF c.missing[p.parity_disk] THEN [ok |-> FALSE, io |-> io]
    ELSE IF ~c.missing[p.data_disk]
    THEN Pwrite(c, io, p.data_disk, p.phys_offset, new_data)
    ELSE [ok |-> TRUE, io |-> io]

\* lines 327-332
WriteNewData(c, io, p, new_data) ==
    IF ~c.missing[p.data_disk]
    THEN Pwrite(c, io, p.data_disk, p.phys_offset, new_data)
    ELSE [ok |-> TRUE, io |-> io]

WriteNewParitySkip(c, io, p, new_parity) ==
    IF ~c.missing[p.parity_disk]
    THEN Pwrite(c, io, p.parity_disk, p.phys_offset, new_parity)
    ELSE [ok |-> TRUE, io |-> io]

\* lines 333-341
WriteNewParity(c, io, p, new_parity) ==
    IF ~c.missing[p.parity_disk]
    THEN Pwrite(c, io, p.parity_disk, p.phys_offset, new_parity)
    ELSE [ok |-> FALSE, io |-> io]

\* as RmwWrite, but the new data is written before the old data is read
RmwWriteEarly(c, io, p, new_data) ==
    LET op == ReadOldParity(c, io, p)
    IN IF ~op.ok THEN [ok |-> FALSE, io |-> op.io]
       ELSE LET wd == WriteNewData(c, op.io, p, new_data)
            IN IF ~wd.ok THEN [ok |-> FALSE, io |-> wd.io]
               ELSE LET od == ReadOldData(c, wd.io, p)
                    IN IF ~od.ok THEN [ok |-> FALSE, io |-> od.io]
                       ELSE WriteNewParity(c, od.io, p,
                                           NewParity(op.val, od.val, new_data))

\* lines 294-341: one block by read-modify-write
RmwWrite(c, io, p, new_data) ==
    LET op == ReadOldParity(c, io, p)
    IN IF ~op.ok THEN [ok |-> FALSE, io |-> op.io]
       ELSE LET od == ReadOldData(c, op.io, p)
            IN IF ~od.ok THEN [ok |-> FALSE, io |-> od.io]
               ELSE LET wd == WriteNewData(c, od.io, p, new_data)
                    IN IF ~wd.ok THEN [ok |-> FALSE, io |-> wd.io]
                       ELSE WriteNewParity(c, wd.io, p,
                                           NewParity(op.val, od.val, new_data))

\* as IsFullStripe, but the offset need not be stripe-aligned
IsFullStripeAnyOffset(c, len, offset) == len >= (c.n - 1) * c.bs

\* line 260-261
IsFullStripe(c, len, offset) ==
    /\ offset % ((c.n - 1) * c.bs) = 0
    /\ len >= (c.n - 1) * c.bs

\* as Rest, but the buffer pointer is not advanced
RestNotAdvanced(buffer, k) == buffer

\* lines 289 and 344: buffer += the bytes consumed
Rest(buffer, k) == SubSeq(buffer, k + 1, Len(buffer))

\* lines 259-347: the while loop; buffer is the data not yet consumed
RECURSIVE WriteLoop(_, _, _, _, _)
WriteLoop(c, io, buffer, len, offset) ==
    IF len <= 0 THEN [ret |-> 0, buf |-> <<>>, io |-> io]
    ELSE IF IsFullStripe(c, len, offset)
    THEN LET fp  == FullStripePlacement(c, offset)
             io1 == BeginStep(io, "full", offset, len, fp.stripe, fp.parity_disk)
             w   == FullStripeWrite(c, io1, buffer, offset)
         IN IF ~w.ok THEN [ret |-> -1, buf |-> <<>>, io |-> w.io]
            ELSE WriteLoop(c, w.io, Rest(buffer, c.n - 1),
                           len - (c.n - 1) * c.bs, offset + (c.n - 1) * c.bs)
    ELSE LET p   == WritePlacement(c, offset)
             io1 == BeginStep(io, "rmw", offset, len, p.stripe, p.parity_disk)
             w   == RmwWrite(c, io1, p, buffer[1])
         IN IF ~w.ok THEN [ret |-> -1, buf |-> <<>>, io |-> w.io]
            ELSE WriteLoop(c, w.io, Rest(buffer, 1), len - c.bs, offset + c.bs)

xmp_write(c, d, buffer, len, offset, failAt) ==
    WriteLoop(c, NewIo(d, failAt), buffer, len, offset)

(* ------------------------------ xmp_flush ----------------------------- *)

\* lines 354-357 (dev_fd[i] != -1 exactly when slot i is not missing)
RECURSIVE FlushLoop(_, _, _)
FlushLoop(c, io, i) ==
    IF i >= c.n THEN io
    ELSE IF ~c.missing[i] THEN FlushLoop(c, Fsync(c, io, i), i + 1)
    ELSE FlushLoop(c, io, i + 1)

xmp_flush(c, d, failAt) == [ret |-> 0, buf |-> <<>>, io |-> FlushLoop(c, NewIo(d, failAt), 0)]

(* --------------------------- do_raid5_rebuild ------------------------- *)

\* lines 115-130: XOR of every slot but the parity slot
RECURSIVE RebuildParityLoop(_, _, _, _, _, _)
RebuildParityLoop(c, io, parity_disk, phys_offset, i, parity_block) ==
    IF i >= c.n THEN [ok |-> TRUE, val |-> parity_block, io |-> io]
    ELSE IF i = parity_disk
         THEN RebuildParityLoop(c, io, parity_disk, phys_offset, i + 1, parity_block)
    ELSE IF c.missing[i] THEN Failed(io)
    ELSE LET r == Pread(c, io, i, phys_offset)
         IN IF ~r.ok THEN Failed(r.io)
            ELSE RebuildParityLoop(c, r.io, parity_disk, phys_offset, i + 1,
                                   XOR(parity_block, r.val))

RebuildReadParityZero(c, io, parity_disk, phys_offset) ==
    [ok |-> TRUE, val |-> 0, io |-> io]

\* lines 141-150: the parity block, or zeroes when the parity slot is missing
RebuildReadParity(c, io, parity_disk, phys_offset) ==
    IF ~c.missing[parity_disk]
    THEN Pread(c, io, parity_disk, phys_offset)
    ELSE [ok |-> TRUE, val |-> 0, io |-> io]

\* lines 152-167: XOR of the slots other than parity and rebuild target
RECURSIVE RebuildDataLoop(_, _, _, _, _, _)
RebuildDataLoop(c, io, parity_disk, phys_offset, i, data_block) ==
    IF i >= c.n THEN [ok |-> TRUE, val |-> data_block, io |-> io]
    ELSE IF i = parity_disk \/ i = c.rebuild
         THEN RebuildDataLoop(c, io, parity_disk, phys_offset, i + 1, data_block)
    ELSE IF c.missing[i] THEN Failed(io)
    ELSE LET r == Pread(c, io, i, phys_offset)
         IN IF ~r.ok THEN Failed(r.io)
            ELSE RebuildDataLoop(c, r.io, parity_disk, phys_offset, i + 1,
                                 XOR(data_block, r.val))

\* lines 110-173: one stripe
RebuildStripe(c, io, stripe) ==
    LET phys_offset == stripe * c.bs
        parity_disk == stripe % c.n
    IN IF c.rebuild = parity_disk
       THEN LET r == RebuildParityLoop(c, io, parity_disk, phys_offset, 0, 0)
            IN IF ~r.ok THEN [ok |-> FALSE, io |-> r.io]
               ELSE Pwrite(c, r.io, c.rebuild, phys_offset, r.val)
       ELSE LET r0 == RebuildReadParity(c, io, parity_disk, phys_offset)
            IN IF ~r0.ok THEN [ok |-> FALSE, io |-> r0.io]
               ELSE LET r == RebuildDataLoop(c, r0.io, parity_disk, phys_offset, 0, r0.val)
                    IN IF ~r.ok THEN [ok |-> FALSE, io |-> r.io]
                       ELSE Pwrite(c, r.io, c.rebuild, phys_offset, r.val)

\* lines 109-176
RECURSIVE RebuildLoop(_, _, _, _)
RebuildLoop(c, io, stripe, num_stripes) ==
    IF stripe >= num_stripes THEN [ret |-> 0, buf |-> <<>>, io |-> io]
    ELSE LET io1 == BeginStep(io, "rebuild", stripe * c.bs, c.bs, stripe, stripe % c.n)
             r   == RebuildStripe(c, io1, stripe)
         IN IF ~r.ok THEN [ret |-> -1, buf |-> <<>>, io |-> r.io]
            ELSE RebuildLoop(c, r.io, stripe + 1, num_stripes)

\* line 103
NumStripes(c) == c.size \div ((c.n - 1) * c.bs)

do_raid5_rebuild(c, d, failAt) == RebuildLoop(c, NewIo(d, failAt), 0, NumStripes(c))

(* -------------------------------- main -------------------------------- *)
(* args = [block_size, devices]: devices[i] is "MISSING", "+" (a path      *)
(* with the + prefix) or "path"; the i-th path names the i-th file.        *)

DevSpecs == {"MISSING", "+", "path"}

\* lseek(fd, 0, SEEK_END), line 401: the files hold blocks of BlockSizeArg bytes
FileSize(d, i) == Len(d[i]) * BlockSizeArg

\* as ScanDevices, but a second + argument replaces the rebuild target
RECURSIVE ScanDevicesLastPlus(_, _, _, _, _)
ScanDevicesLastPlus(args, d, n, i, st) ==
    IF i >= n THEN st
    ELSE IF args.devices[i] = "MISSING"
         THEN ScanDevicesLastPlus(args, d, n, i + 1, [st EXCEPT !.missing[i] = TRUE])
    ELSE LET blocks == FileSize(d, i) \div args.block_size
             st1 == [st EXCEPT
                       !.rebuild = IF args.devices[i] = "+" THEN i ELSE @,
                       !.missing[i] = FALSE,
                       !.min_blocks = IF @ = 0 \/ blocks < @ THEN blocks ELSE @]
         IN ScanDevicesLastPlus(args, d, n, i + 1, st1)

\* lines 380-408: st = [ok, missing, rebuild, min_blocks]
RECURSIVE ScanDevices(_, _, _, _, _)
ScanDevices(args, d, n, i, st) ==
    IF i >= n THEN st
    ELSE IF args.devices[i] = "MISSING"
         THEN ScanDevices(args, d, n, i + 1, [st EXCEPT !.missing[i] = TRUE])
    ELSE IF args.devices[i] = "+" /\ st.rebuild # -1
         THEN [st EXCEPT !.ok = FALSE]
    ELSE LET blocks == FileSize(d, i) \div args.block_size
             st1 == [st EXCEPT
                       !.rebuild = IF args.devices[i] = "+" THEN i ELSE @,
                       !.missing[i] = FALSE,
                       !.min_blocks = IF @ = 0 \/ blocks < @ THEN blocks ELSE @]
         IN ScanDevices(args, d, n, i + 1, st1)

Context(n, bs, missing, rebuild, size) ==
    [n |-> n, bs |-> bs, missing |-> missing, rebuild |-> rebuild, size |-> size]

\* lines 62-79: argp_parse returns only with 1 .. MAX_DEVICES device arguments
\* (errx at the 17th, argp_usage with none)
parse_opt(args) ==
    LET arg_num == 2 + Cardinality(DOMAIN args.devices)
    IN arg_num - 2 <= MAX_DEVICES /\ ~(arg_num < 3)

\* as main, but a failed rebuild does not stop the process
mainRebuildUnchecked(args, d, failAt) ==
    LET n   == Cardinality(DOMAIN args.devices)
        bs  == args.block_size
        st0 == [ok |-> TRUE, missing |-> [i \in Slots(n) |-> FALSE],
                rebuild |-> -1, min_blocks |-> 0]
        st  == ScanDevices(args, d, n, 0, st0)
        c   == Context(n, bs, st.missing, st.rebuild, (n - 1) * st.min_blocks * bs)
        io0 == NewIo(d, failAt)
    IN IF ~parse_opt(args)
       THEN [exit |-> 1, c |-> Context(0, 0, << >>, -1, 0), io |-> io0]
       ELSE IF n < 3
       THEN [exit |-> 1, c |-> Context(n, bs, st0.missing, -1, 0), io |-> io0]
       ELSE IF ~st.ok \/ st.min_blocks = 0
       THEN [exit |-> 1, c |-> c, io |-> io0]
       ELSE IF st.rebuild = -1 THEN [exit |-> 0, c |-> c, io |-> io0]
       ELSE IF st.missing[st.rebuild] THEN [exit |-> 1, c |-> c, io |-> io0]
       ELSE LET r == do_raid5_rebuild(c, d, failAt)
            IN [exit |-> 0, c |-> c, io |-> r.io]

\* lines 368-439: [exit, c, io]; exit = 0 means buse_main is entered
main(args, d, failAt) ==
    LET n   == Cardinality(DOMAIN args.devices)
        bs  == args.block_size
        st0 == [ok |-> TRUE, missing |-> [i \in Slots(n) |-> FALSE],
                rebuild |-> -1, min_blocks |-> 0]
        st  == ScanDevices(args, d, n, 0, st0)
        c   == Context(n, bs, st.missing, st.rebuild, (n - 1) * st.min_blocks * bs)
        io0 == NewIo(d, failAt)
    IN IF ~parse_opt(args)
       THEN [exit |-> 1, c |-> Context(0, 0, << >>, -1, 0), io |-> io0]
       ELSE IF n < 3
       THEN [exit |-> 1, c |-> Context(n, bs, st0.missing, -1, 0), io |-> io0]
       ELSE IF ~st.ok \/ st.min_blocks = 0
       THEN [exit |-> 1, c |-> c, io |-> io0]
       ELSE IF st.rebuild = -1 THEN [exit |-> 0, c |-> c, io |-> io0]
       ELSE IF st.missing[st.rebuild] THEN [exit |-> 1, c |-> c, io |-> io0]
       ELSE LET r == do_raid5_rebuild(c, d, failAt)
            IN [exit |-> IF r.ret # 0 THEN 1 ELSE 0, c |-> c, io |-> r.io]

(* ------------------------------- actions ------------------------------ *)

None == [op |-> "none"]

Result(op, r, c, len, offset, data, failAt) ==
    [op |-> op, ret |-> r.ret, buf |-> r.buf, log |-> r.io.log, steps |-> r.io.steps,
     c |-> c, len |-> len, offset |-> offset, data |-> data, failAt |-> failAt]

Cur == Context(num_devices, block_size, dev_missing, rebuild_dev, raid_device_size)

\* the globals of a process that is not running (their static initial values)
Stopped ==
    /\ pc' = "off"
    /\ num_devices' = 0
    /\ dev_missing' = << >>
    /\ rebuild_dev' = -1
    /\ block_size' = 0
    /\ raid_device_size' = 0

\* the positions at which a back-end call of the run r can be made to fail
FailPoints(r) == 0 .. Len(r.io.log)

ArgSets(n) == [block_size : {BlockSizeArg}, devices : [Slots(n) -> DevSpecs]]

\* the requests the shim delivers: block-aligned, inside the device
Requests ==
    { rq \in [blk : 0 .. (MaxDevs * MaxBlocks), cnt : 1 .. MaxLen] :
        rq.blk + rq.cnt <= raid_device_size \div block_size }

Init ==
    /\ \E n \in 3 .. MaxDevs : \E k \in 1 .. MaxBlocks :
          /\ n * k <= MaxCells
          /\ disk \in [Slots(n) -> [1 .. k -> BlockValues]]
    /\ pc = "off"
    /\ num_devices = 0
    /\ dev_missing = << >>
    /\ rebuild_dev = -1
    /\ block_size = 0
    /\ raid_device_size = 0
    /\ res = None

\* the process is started with one of the argument lists A: main runs up to
\* buse_main or to exit(1); the record of the run keeps its arguments
Start(A) ==
    /\ pc = "off" /\ res = None
    /\ \E args \in A :
       \E failAt \in FailPoints(main(args, disk, 0)) :
          LET m == main(args, disk, failAt)
          IN /\ disk' = m.io.disk
             /\ res' = Result("main", [ret |-> m.exit, buf |-> <<>>, io |-> m.io],
                              m.c, 0, 0, <<>>, failAt) @@ [args |-> args]
             /\ IF m.exit = 0
                THEN /\ pc' = "serving"
                     /\ num_devices' = m.c.n
                     /\ dev_missing' = m.c.missing
                     /\ rebuild_dev' = m.c.rebuild
                     /\ block_size' = m.c.bs
                     /\ raid_device_size' = m.c.size
                ELSE Stopped

Main == Start(ArgSets(Cardinality(DOMAIN disk)))

XmpRead ==
    /\ pc = "serving" /\ res = None
    /\ \E rq \in Requests :
       LET len == rq.cnt * block_size
           offset == rq.blk * block_size
       IN \E failAt \in FailPoints(xmp_read(Cur, disk, len, offset, 0)) :
          LET r == xmp_read(Cur, disk, len, offset, failAt)
          IN /\ res' = Result("read", r, Cur, len, offset, <<>>, failAt)
             /\ disk' = r.io.disk
    /\ UNCHANGED <<pc, num_devices, dev_missing, rebuild_dev, block_size, raid_device_size>>

XmpWrite ==
    /\ pc = "serving" /\ res = None
    /\ \E rq \in Requests : \E data \in [1 .. rq.cnt -> BlockValues] :
       LET len == rq.cnt * block_size
           offset == rq.blk * block_size
       IN \E failAt \in FailPoints(xmp_write(Cur, disk, data, len, offset, 0)) :
          LET r == xmp_write(Cur, disk, data, len, offset, failAt)
          IN /\ res' = Result("write", r, Cur, len, offset, data, failAt)
             /\ disk' = r.io.disk
    /\ UNCHANGED <<pc, num_devices, dev_missing, rebuild_dev, block_size, raid_device_size>>

XmpFlush ==
    /\ pc = "serving" /\ res = None
    /\ \E failAt \in FailPoints(xmp_flush(Cur, disk, 0)) :
          LET r == xmp_flush(Cur, disk, failAt)
          IN /\ res' = Result("flush", r, Cur, 0, 0, <<>>, failAt)
             /\ disk' = r.io.disk
    /\ UNCHANGED <<pc, num_devices, dev_missing, rebuild_dev, block_size, raid_device_size>>

\* the shim takes the callback's return value (or the shell the exit status)
Return ==
    /\ res # None
    /\ res' = None
    /\ UNCHANGED <<disk, pc, num_devices, dev_missing, rebuild_dev, block_size,
                   raid_device_size>>

\* xmp_disc, after which buse_main returns and the process ends
XmpDisc ==
    /\ pc = "serving" /\ res = None
    /\ Stopped
    /\ UNCHANGED <<disk, res>>

Next == Main \/ XmpRead \/ XmpWrite \/ XmpFlush \/ Return \/ XmpDisc

Spec == Init /\ [][Next]_vars

(* ----------------------- the geometry on its own ---------------------- *)
(* A second specification: every device count the program accepts and a   *)
(* range of logical blocks, with the placement as the two callbacks        *)
(* compute it.                                                             *)

\* logical blocks 0 .. MaxL
MaxL == 300

InitMap ==
    /\ disk = << >>
    /\ pc = "geometry"
    /\ num_devices \in 3 .. MAX_DEVICES
    /\ dev_missing = << >>
    /\ rebuild_dev = -1
    /\ block_size \in 1 .. BlockSizeArg
    /\ raid_device_size = 0
    /\ res = None

Place ==
    /\ pc = "geometry" /\ res = None
    /\ \E L \in 0 .. MaxL :
          res' = [op |-> "place", L |-> L,
                  rd |-> ReadPlacement(Cur, L * block_size),
                  wr |-> WritePlacement(Cur, L * block_size)]
    /\ UNCHANGED <<disk, pc, num_devices, dev_missing, rebuild_dev, block_size,
                   raid_device_size>>

NextMap == Place \/ Return

SpecMap == InitMap /\ [][NextMap]_vars

(* ------------------------- notions of the claims ---------------------- *)

\* the block of slot i at byte offset s * B
BlockAt(d, c, i, s) == d[i][((s * c.bs) \div c.bs) + 1]

\* XOR over the slots i..n-1, but slot skip, of the block at stripe s
RECURSIVE XorFrom(_, _, _, _, _)
XorFrom(d, c, s, skip, i) ==
    IF i >= c.n THEN 0
    ELSE IF i = skip THEN XorFrom(d, c, s, skip, i + 1)
    ELSE XOR(BlockAt(d, c, i, s), XorFrom(d, c, s, skip, i + 1))

StripeXor(d, c, s) == XorFrom(d, c, s, -1, 0)

StripesOf(c) == 0 .. (NumStripes(c) - 1)

ParityConsistent(d, c) == \A s \in StripesOf(c) : StripeXor(d, c, s) = 0

MissingSlots(c) == {i \in Slots(c.n) : c.missing[i]}

AllPresent(c) == [c EXCEPT !.missing = [i \in Slots(c.n) |-> FALSE]]

OneMissing(c, m) == [c EXCEPT !.missing = [i \in Slots(c.n) |-> i = m]]

\* the logical blocks a request covers
BlocksOf(r) == (r.offset \div r.c.bs) .. ((r.offset + r.len) \div r.c.bs - 1)

WriteStep == res = None /\ res'.op = "write"

MainStep == res = None /\ res'.op = "main"

(* ============================== claims ================================ *)

\* C1: a successful xmp_write made with every slot present on back-ends whose
\* every stripe XORs to zero leaves every stripe s < K XORing to zero, so
\* parity consistency holds after any sequence of such writes.
C1_ParityPreserved ==
    [][ (/\ WriteStep
         /\ res'.ret = 0
         /\ MissingSlots(Cur) = {}
         /\ ParityConsistent(disk, Cur))
        => ParityConsistent(disk', Cur) ]_vars

\* a two-stripe device after a successful write that went through the
\* read-modify-write path and then the full-stripe path, data not all zero
C1_Witness ==
    /\ res.op = "write" /\ res.ret = 0
    /\ MissingSlots(res.c) = {}
    /\ Len(res.steps) = 2
    /\ res.steps[1].path = "rmw" /\ res.steps[2].path = "full"
    /\ \A k \in DOMAIN res.data : res.data[k] = 1
    /\ ParityConsistent(disk, res.c)

\* C2: after a successful write of exactly one full stripe ((N-1)*B bytes at a
\* stripe-aligned offset) made with every slot present, xmp_read of the same
\* offset and length returns the written bytes, with every slot present and
\* with any single slot (data or parity) marked missing at the read.
C2_RoundTrip ==
    (/\ res.op = "write" /\ res.ret = 0
     /\ MissingSlots(res.c) = {}
     /\ IsFullStripe(res.c, res.len, res.offset)
     /\ res.len = (res.c.n - 1) * res.c.bs)
    => /\ LET r == xmp_read(res.c, disk, res.len, res.offset, 0)
          IN r.ret = 0 /\ r.buf = res.data
       /\ \A m \in Slots(res.c.n) :
             LET r == xmp_read(OneMissing(res.c, m), disk, res.len, res.offset, 0)
             IN r.ret = 0 /\ r.buf = res.data

\* a full-stripe write, of blocks that are not all equal, to the second stripe
C2_Witness ==
    /\ res.op = "write" /\ res.ret = 0
    /\ MissingSlots(res.c) = {}
    /\ IsFullStripe(res.c, res.len, res.offset)
    /\ res.len = (res.c.n - 1) * res.c.bs
    /\ res.offset > 0
    /\ res.data[1] # res.data[2]

\* C3: on parity-consistent back-ends with exactly one slot missing, a read
\* inside the device whose back-end calls all succeed returns 0 and the bytes
\* that xmp_read returns for the same request with every slot present.
C3_DegradedRead ==
    (/\ res.op = "read" /\ res.failAt = 0
     /\ Cardinality(MissingSlots(res.c)) = 1
     /\ ParityConsistent(disk, res.c))
    => /\ res.ret = 0
       /\ res.buf = xmp_read(AllPresent(res.c), disk, res.len, res.offset, 0).buf
       /\ Len(res.buf) * res.c.bs = res.len

\* a degraded read of a block of the missing slot that is reconstructed as 1
C3_Witness ==
    /\ res.op = "read" /\ res.failAt = 0 /\ res.ret = 0
    /\ Cardinality(MissingSlots(res.c)) = 1
    /\ ParityConsistent(disk, res.c)
    /\ res.len = res.c.bs
    /\ res.c.missing[ReadPlacement(res.c, res.offset).data_disk]
    /\ res.buf = <<1>>
    /\ Len(res.log) = res.c.n - 1

\* C4: when main runs a rebuild of target t with every other slot present and
\* the rebuild succeeds, every block of slot t (in stripes where t holds parity
\* and in stripes where it holds data) becomes the XOR of the other slots'
\* blocks, which is the content it had on the parity-consistent original,
\* whatever slot t held before; the other slots keep their content.
C4_Rebuild ==
    [][ (/\ MainStep
         /\ res'.ret = 0
         /\ res'.c.rebuild # -1
         /\ MissingSlots(res'.c) = {})
        => \A i \in Slots(res'.c.n) : \A s \in StripesOf(res'.c) :
              BlockAt(disk', res'.c, i, s) =
                 IF i = res'.c.rebuild
                 THEN XorFrom(disk, res'.c, s, i, 0)
                 ELSE BlockAt(disk, res'.c, i, s) ]_vars

\* a rebuilt slot that holds parity in one stripe and data in another, both
\* blocks rebuilt as 1
C4_Witness ==
    /\ res.op = "main" /\ res.ret = 0
    /\ res.c.rebuild # -1
    /\ MissingSlots(res.c) = {}
    /\ NumStripes(res.c) = 2
    /\ res.c.rebuild \in {0, 1}
    /\ \A s \in StripesOf(res.c) : BlockAt(disk, res.c, res.c.rebuild, s) = 1
    /\ ParityConsistent(disk, res.c)

\* C5: with two slots missing, a read that covers a logical block whose data
\* slot is missing returns an error, whether the other missing slot is the
\* stripe's parity slot or a peer, and hands out no block from that one on.
C5_DoubleFailure ==
    (/\ res.op = "read"
     /\ Cardinality(MissingSlots(res.c)) = 2)
    => \A L \in BlocksOf(res) :
          res.c.missing[ReadPlacement(res.c, L * res.c.bs).data_disk]
          => /\ res.ret # 0
             /\ Len(res.buf) <= L - (res.offset \div res.c.bs)

\* the data slot and a peer are missing, the parity slot is present and read
C5_Witness ==
    /\ res.op = "read" /\ res.failAt = 0
    /\ Cardinality(MissingSlots(res.c)) = 2
    /\ res.len = res.c.bs
    /\ res.c.missing[ReadPlacement(res.c, res.offset).data_disk]
    /\ ~res.c.missing[ReadPlacement(res.c, res.offset).parity_disk]
    /\ Len(res.log) = 1
    /\ res.ret # 0

\* C6: for every N in 3..16 and every logical block L, the placement that
\* xmp_read computes and the one the read-modify-write path of xmp_write
\* computes satisfy L = stripe*(N-1) + pos, 0 <= pos < N-1, parity = stripe
\* mod N, data in [0,N) and data # parity, data = pos when pos < parity and
\* data = pos+1 when pos >= parity, and phys_off = stripe*B.
MappingLaws(pl, L, n, bs) ==
    /\ L = pl.stripe * (n - 1) + pl.pos
    /\ 0 <= pl.pos /\ pl.pos < n - 1
    /\ pl.parity_disk = pl.stripe % n
    /\ pl.data_disk \in 0 .. (n - 1)
    /\ pl.data_disk # pl.parity_disk
    /\ (pl.pos < pl.parity_disk => pl.data_disk = pl.pos)
    /\ (pl.pos >= pl.parity_disk => pl.data_disk = pl.pos + 1)
    /\ pl.phys_offset = pl.stripe * bs

C6_MappingLaws ==
    res.op = "place"
    => /\ MappingLaws(res.rd, res.L, num_devices, block_size)
       /\ MappingLaws(res.wr, res.L, num_devices, block_size)

\* sixteen devices, a stripe whose parity slot is the last slot, and the block
\* at the position just before it, with blocks of more than one byte
C6_Witness ==
    /\ res.op = "place"
    /\ num_devices = MAX_DEVICES
    /\ block_size > 1
    /\ res.rd.parity_disk = num_devices - 1
    /\ res.rd.pos = num_devices - 2
    /\ res.rd.data_disk = res.rd.pos

\* C7: on parity-consistent back-ends with exactly one slot missing, after a
\* successful single-block xmp_write of new_data to a logical block whose data
\* slot is the missing one, xmp_read of that block in the same configuration
\* returns new_data.
C7_DegradedRmw ==
    [][ (/\ WriteStep
         /\ res'.ret = 0
         /\ res'.len = block_size
         /\ MissingSlots(Cur) = {WritePlacement(Cur, res'.offset).data_disk}
         /\ ParityConsistent(disk, Cur))
        => LET r == xmp_read(Cur, disk', res'.len, res'.offset, 0)
           IN r.ret = 0 /\ r.buf = res'.data ]_vars

\* C8: with exactly one slot missing that is a data slot of stripe s, after a
\* successful xmp_write every stripe s it wrote on the full-stripe path reads
\* back, block by block and in the same configuration, as the bytes written,
\* the block mapped to the missing slot included.
C8_DegradedFullStripe ==
    (/\ res.op = "write" /\ res.ret = 0
     /\ Cardinality(MissingSlots(res.c)) = 1)
    => \A k \in DOMAIN res.steps :
          LET st == res.steps[k]
          IN (st.path = "full" /\ ~res.c.missing[st.stripe % res.c.n])
             => \A d \in 0 .. (res.c.n - 2) :
                   LET off == st.offset + d * res.c.bs
                       r   == xmp_read(res.c, disk, res.c.bs, off, 0)
                   IN /\ r.ret = 0
                      /\ r.buf = <<res.data[(off - res.offset) \div res.c.bs + 1]>>

\* a full-stripe write of blocks that are not all equal, one data slot missing
C8_Witness ==
    /\ res.op = "write" /\ res.ret = 0
    /\ Cardinality(MissingSlots(res.c)) = 1
    /\ Len(res.steps) = 1 /\ res.steps[1].path = "full"
    /\ ~res.c.missing[res.steps[1].stripe % res.c.n]
    /\ res.data[1] # res.data[2]
    /\ Len(res.log) = res.c.n - 1

\* C9: an xmp_write that begins a block (read-modify-write path) or a stripe
\* (full-stripe path) whose parity slot, stripe mod N, is missing returns
\* nonzero.
C9_MissingParity ==
    (/\ res.op = "write"
     /\ \E k \in DOMAIN res.steps : res.c.missing[res.steps[k].stripe % res.c.n])
    => res.ret # 0

\* a request whose first block goes through read-modify-write on a stripe with
\* its parity present and whose full stripe then meets a missing parity slot,
\* after that stripe's data blocks were written
C9_Witness ==
    /\ res.op = "write" /\ res.failAt = 0
    /\ Len(res.steps) = 2
    /\ res.steps[1].path = "rmw" /\ res.steps[2].path = "full"
    /\ res.c.missing[res.steps[2].stripe % res.c.n]
    /\ res.log[Len(res.log)].kind = "pwrite"
    /\ res.ret # 0

\* C10: no operation issues a back-end read, write or fsync on a slot whose
\* missing flag is set, and the rebuild writes the rebuild target only.
C10_MissingUntouched ==
    res.op \in {"read", "write", "flush", "main"}
    => \A k \in DOMAIN res.log :
          /\ ~res.c.missing[res.log[k].dev]
          /\ (res.op = "main" /\ res.log[k].kind = "pwrite")
             => res.log[k].dev = res.c.rebuild

\* a rebuild that ran to its end while another slot was missing
C10_Witness ==
    /\ res.op = "main" /\ res.ret = 0
    /\ res.c.rebuild # -1
    /\ MissingSlots(res.c) # {}
    /\ \E k \in DOMAIN res.log : res.log[k].kind = "pwrite"
    /\ \E k \in DOMAIN res.log : res.log[k].kind = "pread"

\* C11: whenever main runs with a rebuild target and some other slot is
\* missing, do_raid5_rebuild returns an error (main exits nonzero), also when
\* the missing slot is the parity slot of the stripe whose data is rebuilt.
C11_RebuildImpossible ==
    (/\ res.op = "main"
     /\ res.c.rebuild # -1
     /\ MissingSlots(res.c) \ {res.c.rebuild} # {})
    => res.ret # 0

(* ------------------------ back-ends of any size ----------------------- *)
(* A third specification: the files differ in size, down to no block at    *)
(* all, and main computes the size of the virtual device from them.        *)

InitCap ==
    /\ \E n \in 3 .. MaxDevs :
       \E blocks \in [Slots(n) -> 0 .. MaxBlocks] :
          disk = [i \in Slots(n) |-> [k \in 1 .. blocks[i] |-> 0]]
    /\ pc = "off"
    /\ num_devices = 0
    /\ dev_missing = << >>
    /\ rebuild_dev = -1
    /\ block_size = 0
    /\ raid_device_size = 0
    /\ res = None

NextCap == Main \/ Return \/ XmpDisc

SpecCap == InitCap /\ [][NextCap]_vars

\* the least block count floor(size_i / B) over the slots that are not missing
MinBlocksOf(d, c) ==
    LET b == {FileSize(d, i) \div c.bs : i \in Slots(c.n) \ MissingSlots(c)}
    IN CHOOSE m \in b : \A x \in b : m <= x

\* C12: whenever main enters buse_main, the size of the virtual device is
\* (N-1) * min_blocks * B with min_blocks the least floor(size_i / B) over
\* the non-missing slots, files of no block included, and the stripe count
\* of the rebuild is min_blocks.
C12_Capacity ==
    (res.op = "main" /\ res.ret = 0)
    => /\ res.c.size = (res.c.n - 1) * MinBlocksOf(disk, res.c) * res.c.bs
       /\ NumStripes(res.c) = MinBlocksOf(disk, res.c)

(* ----------------------- every argument list length ------------------- *)
(* A fourth specification: 0 .. MAX_DEVICES + 1 device arguments over      *)
(* one-block files; the first MaxDevs - 1 arguments vary freely, the       *)
(* others are alike. The served requests are reads and flushes.            *)

ArgLists(n) ==
    [block_size : {BlockSizeArg},
     devices : { [i \in Slots(n) |-> IF i < MaxDevs - 1 THEN p[i] ELSE tail] :
                   p \in [Slots(MaxDevs - 1) -> DevSpecs], tail \in DevSpecs }]

InitArgs ==
    /\ \E n \in 0 .. (MAX_DEVICES + 1) : disk = [i \in Slots(n) |-> <<0>>]
    /\ pc = "off"
    /\ num_devices = 0
    /\ dev_missing = << >>
    /\ rebuild_dev = -1
    /\ block_size = 0
    /\ raid_device_size = 0
    /\ res = None

StartArgs == Start(ArgLists(Cardinality(DOMAIN disk)))

NextArgs == StartArgs \/ XmpRead \/ XmpFlush \/ Return \/ XmpDisc

SpecArgs == InitArgs /\ [][NextArgs]_vars

\* the slot configuration the claims require of a running array
ConfigOK(c) ==
    /\ 3 <= c.n /\ c.n <= 16
    /\ DOMAIN c.missing = Slots(c.n)
    /\ c.rebuild \in {-1} \cup Slots(c.n)
    /\ c.rebuild # -1 => ~c.missing[c.rebuild]
    /\ \E i \in Slots(c.n) : ~c.missing[i]

\* the argument lists that ask for such a configuration
ArgsOK(args) ==
    LET n == Cardinality(DOMAIN args.devices)
    IN /\ 3 <= n /\ n <= 16
       /\ Cardinality({i \in DOMAIN args.devices : args.devices[i] = "+"}) <= 1
       /\ \E i \in DOMAIN args.devices : args.devices[i] # "MISSING"

\* C13: whenever the rebuild runs or a request is served the configuration is
\* 3 <= N <= 16, at most one rebuild target, not missing, and some slot not
\* missing; an argument list asking for anything else makes main exit before
\* any rebuild step or request; and once main has set them, the missing flags
\* and the rebuild target do not change while the array is served.
C13_SlotConfiguration ==
    [][ /\ pc' = "serving" => ConfigOK(Cur')
        /\ (res'.op \in {"read", "write", "flush"}) => ConfigOK(res'.c)
        /\ (res'.op = "main" /\ res'.steps # << >>) => ConfigOK(res'.c)
        /\ (MainStep /\ ~ArgsOK(res'.args))
           => (res'.ret # 0 /\ res'.steps = << >> /\ res'.log = << >> /\ pc' = "off")
        /\ (MainStep /\ res'.ret = 0) => (pc' = "serving" /\ Cur' = res'.c)
        /\ (pc = "serving" /\ pc' = "serving")
           => (/\ dev_missing' = dev_missing
               /\ rebuild_dev' = rebuild_dev
               /\ num_devices' = num_devices) ]_vars

\* main has rebuilt a slot of a MAX_DEVICES-slot array and serves it
C13_Witness ==
    /\ res.op = "main" /\ res.ret = 0
    /\ pc = "serving"
    /\ num_devices = MAX_DEVICES
    /\ rebuild_dev # -1
    /\ Len(res.steps) = 1

\* the log entries of the step-th loop iteration of a run
StepLog(r, step) == SelectSeq(r.log, LAMBDA e : e.step = step)

\* the record r is of a rebuild that went through every stripe once, in
\* order, each ending with the write of the target's block
RebuildComplete(r) ==
    /\ Len(r.steps) = NumStripes(r.c)
    /\ \A k \in DOMAIN r.steps :
          /\ r.steps[k].path = "rebuild" /\ r.steps[k].stripe = k - 1
          /\ LET l == StepLog(r, k)
             IN /\ l # << >>
                /\ \A j \in DOMAIN l :
                      /\ l[j].ok
                      /\ l[j].kind = (IF j = Len(l) THEN "pwrite" ELSE "pread")
                /\ l[Len(l)].dev = r.c.rebuild
                /\ l[Len(l)].off = (k - 1) * r.c.bs

\* C14: with a rebuild target, main enters buse_main only after one complete
\* run of do_raid5_rebuild, and exits with no request served when the rebuild
\* returns an error; requests are served only after main has entered
\* buse_main, and a request never runs a rebuild step.
C14_RebuildFirst ==
    [][ /\ (MainStep /\ res'.c.rebuild # -1 /\ res'.ret = 0) => RebuildComplete(res')
        /\ (MainStep /\ res'.c.rebuild = -1) => res'.steps = << >>
        /\ (MainStep /\ res'.ret = 0) => pc' = "serving"
        /\ (MainStep /\ res'.ret # 0) => pc' = "off"
        /\ (pc = "off" /\ pc' = "serving") => (MainStep /\ res'.ret = 0)
        /\ (res = None /\ res'.op \in {"read", "write", "flush"})
           => /\ pc = "serving" /\ pc' = "serving"
              /\ \A k \in DOMAIN res'.steps : res'.steps[k].path # "rebuild" ]_vars

\* a request served by an array whose slot was rebuilt over two stripes
C14_Witness ==
    /\ res.op \in {"read", "write", "flush"}
    /\ res.c.rebuild # -1
    /\ NumStripes(res.c) = 2
    /\ res.log # << >>

\* the logical block L as xmp_read returns it from the back-ends d, every
\* slot present
FlatBlock(d, c, L) == xmp_read(AllPresent(c), d, c.bs, L * c.bs, 0).buf[1]

\* the logical blocks of the virtual device
LogicalBlocks(c) == 0 .. (c.size \div c.bs - 1)

\* C15: with every slot present, a successful xmp_write of any block-aligned
\* offset and length changes the virtual device as a write to a flat array
\* does: afterwards xmp_read returns the written block for every logical
\* block the request covers and the block it returned before for every other.
C15_FlatArray ==
    [][ (WriteStep /\ res'.ret = 0 /\ MissingSlots(Cur) = {})
        => \A L \in LogicalBlocks(Cur) :
              /\ xmp_read(Cur, disk', block_size, L * block_size, 0).ret = 0
              /\ FlatBlock(disk', Cur, L) =
                    IF L \in BlocksOf(res')
                    THEN res'.data[L - (res'.offset \div block_size) + 1]
                    ELSE FlatBlock(disk, Cur, L) ]_vars

\* a write that starts in the middle of a stripe, crosses into the next one
\* and covers it whole, of blocks that are not all equal, over other content
C15_Witness ==
    /\ res.op = "write" /\ res.ret = 0
    /\ MissingSlots(res.c) = {}
    /\ Len(res.steps) = 2
    /\ res.steps[1].path = "rmw" /\ res.steps[2].path = "full"
    /\ res.offset # 0
    /\ res.data[1] # res.data[2]
    /\ FlatBlock(disk, res.c, 0) # res.data[1]

\* C16: in every block xmp_write handles by read-modify-write, each pwrite
\* comes after the successful preads of the old parity and of the old data
\* (of the slots that are present), no pread follows a pwrite, and the
\* pwrite of the data comes before the pwrite of the parity.
C16_RmwOrdering ==
    res.op = "write"
    => \A k \in DOMAIN res.steps :
          res.steps[k].path = "rmw"
          => LET l == StepLog(res, k)
                 p == WritePlacement(res.c, res.steps[k].offset)
             IN \A j \in DOMAIN l :
                   l[j].kind = "pwrite"
                   => /\ \A i \in DOMAIN l : l[i].kind = "pread" => (i < j /\ l[i].ok)
                      /\ ~res.c.missing[p.parity_disk]
                         => \E i \in 1 .. (j - 1) :
                               l[i].kind = "pread" /\ l[i].dev = p.parity_disk
                      /\ ~res.c.missing[p.data_disk]
                         => \E i \in 1 .. (j - 1) :
                               l[i].kind = "pread" /\ l[i].dev = p.data_disk
                      /\ l[j].dev = p.parity_disk
                         => /\ \A i \in DOMAIN l :
                                  (l[i].kind = "pwrite" /\ l[i].dev = p.data_disk)
                                  => i < j
                            /\ ~res.c.missing[p.data_disk]
                               => \E i \in 1 .. (j - 1) :
                                     /\ l[i].kind = "pwrite" /\ l[i].ok
                                     /\ l[i].dev = p.data_disk

\* one block written by read-modify-write with every slot present: two
\* preads, then the data, then the parity
C16_Witness ==
    /\ res.op = "write" /\ res.ret = 0
    /\ MissingSlots(res.c) = {}
    /\ Len(res.steps) = 1 /\ res.steps[1].path = "rmw"
    /\ Len(res.log) = 4
    /\ res.log[3].kind = "pwrite" /\ res.log[4].kind = "pwrite"
    /\ res.log[4].dev = res.steps[1].parity

\* the step-th loop iteration of the write r ran to its end
StepDone(r, step) == step < Len(r.steps) \/ r.ret = 0

\* the bytes by which the loop of r advanced in its step-th iteration
Advance(r, step) ==
    IF step < Len(r.steps) THEN r.steps[step + 1].offset - r.steps[step].offset
    ELSE r.offset + r.len - r.steps[step].offset

\* the loop iterations of the write r are chosen and advance as the claim
\* says, and a finished full-stripe iteration has written, with no pread,
\* one block at the stripe's offset to each slot of the set written
PathSelection(r, written) ==
    /\ r.len > 0 => (r.steps # << >> /\ r.steps[1].offset = r.offset
                     /\ r.steps[1].len = r.len)
    /\ \A k \in DOMAIN r.steps :
          LET s == r.steps[k]
              l == StepLog(r, k)
              stripe_bytes == (r.c.n - 1) * r.c.bs
          IN /\ s.path \in {"full", "rmw"}
             /\ s.path = "full" <=> (s.offset % stripe_bytes = 0 /\ s.len >= stripe_bytes)
             /\ k < Len(r.steps) => s.len - r.steps[k + 1].len = Advance(r, k)
             /\ s.path = "full"
                => /\ \A j \in DOMAIN l : l[j].kind = "pwrite"
                   /\ StepDone(r, k)
                      => /\ Advance(r, k) = stripe_bytes
                         /\ {l[j].dev : j \in DOMAIN l} = written
                         /\ Len(l) = Cardinality(written)
                         /\ \A j \in DOMAIN l :
                               /\ l[j].ok
                               /\ l[j].off = (s.offset \div stripe_bytes) * r.c.bs
                               /\ l[j].dev = s.parity <=> j = Len(l)
             /\ s.path = "rmw"
                => LET p == WritePlacement(r.c, s.offset)
                   IN /\ StepDone(r, k) => Advance(r, k) = r.c.bs
                      /\ \A j \in DOMAIN l :
                            /\ l[j].dev \in {p.data_disk, p.parity_disk}
                            /\ l[j].off = p.phys_offset

\* C17 as stated: the full-stripe path is taken exactly at a stripe-aligned
\* offset with a whole stripe left; it issues no pread, writes the stripe's
\* N-1 data blocks and its parity block and advances by (N-1)*B; any other
\* step handles one logical block by read-modify-write and advances by B.
C17_PathSelection ==
    res.op = "write" => PathSelection(res, Slots(res.c.n))

\* C17 amended: the same, where the data blocks a full-stripe step writes are
\* those of the slots that are not missing (all N-1 when no slot is missing).
C17_PathSelectionPresent ==
    res.op = "write" => PathSelection(res, Slots(res.c.n) \ MissingSlots(res.c))

\* a successful write over a missing data slot: a block by read-modify-write,
\* then a whole stripe of which N-2 data blocks and the parity are written
C17_Witness ==
    /\ res.op = "write" /\ res.ret = 0
    /\ Len(res.steps) = 2
    /\ res.steps[1].path = "rmw" /\ res.steps[2].path = "full"
    /\ Cardinality(MissingSlots(res.c)) = 1
    /\ Len(StepLog(res, 2)) = res.c.n - 1

\* C18: in xmp_read and xmp_write a failed back-end call is the last call of
\* the request (it is not issued again and nothing is issued after it) and
\* the callback returns nonzero.
C18_FailStop ==
    res.op \in {"read", "write"}
    => \A k \in DOMAIN res.log :
          ~res.log[k].ok => (k = Len(res.log) /\ res.ret # 0)

\* a write of three blocks whose second back-end call fails: the rest of the
\* first block and the two other blocks are never issued
C18_Witness ==
    /\ res.op = "write" /\ res.ret # 0
    /\ res.len = 3 * res.c.bs
    /\ Len(res.log) = 2
    /\ ~res.log[2].ok
    /\ Len(res.steps) = 1

\* the (slot, stripe) pairs that hold data in an array of n slots, K stripes
DataCells(n, K) == {cell \in Slots(n) \X (0 .. (K - 1)) : cell[1] # cell[2] % n}

\* the cells onto which a placement sends the logical blocks 0 .. K*(n-1) - 1
CellsOf(c, K, placement(_, _)) ==
    { <<placement(c, L * c.bs).data_disk, placement(c, L * c.bs).stripe>> :
        L \in 0 .. (K * (c.n - 1) - 1) }

\* C19: for every N in 3..16 and every K (here the stripes up to the one of
\* the block placed), the placement of xmp_read and of xmp_write sends the
\* logical blocks 0 .. K*(N-1)-1 one-to-one onto the cells (slot, stripe)
\* with slot # stripe mod N and stripe < K, and the full-stripe path sends
\* the d-th block of a stripe to the slot, stripe and offset the per-block
\* placement gives logical block stripe*(N-1)+d.
C19_PlacementBijection ==
    res.op = "place"
    => LET K == res.wr.stripe + 1
           n == num_devices
       IN /\ CellsOf(Cur, K, ReadPlacement) = DataCells(n, K)
          /\ CellsOf(Cur, K, WritePlacement) = DataCells(n, K)
          /\ Cardinality(CellsOf(Cur, K, ReadPlacement)) = K * (n - 1)
          /\ Cardinality(CellsOf(Cur, K, WritePlacement)) = K * (n - 1)
          /\ \A d \in 0 .. (n - 2) :
                LET fp == FullStripePlacement(Cur, res.wr.stripe * (n - 1) * block_size)
                    wp == WritePlacement(Cur, (res.wr.stripe * (n - 1) + d) * block_size)
                IN /\ FullStripeDataDisk(d, fp.parity_disk) = wp.data_disk
                   /\ fp.stripe = wp.stripe
                   /\ fp.parity_disk = wp.parity_disk
                   /\ fp.phys_offset = wp.phys_offset

\* sixteen slots, a block of the stripe after the parity has gone round once
C19_Witness ==
    /\ res.op = "place"
    /\ num_devices = MAX_DEVICES
    /\ res.wr.stripe = MAX_DEVICES + 1
    /\ res.wr.parity_disk = 1
    /\ res.wr.data_disk = 2

\* the number of logical blocks the step-th loop iteration of r handles
StepBlocks(r, step) == IF r.steps[step].path = "full" THEN r.c.n - 1 ELSE 1

\* C20: when xmp_write returns an error with no back-end call failed, it was
\* refused for the missing parity slot of its last step, and the back-ends
\* are not as before the request: every block of the request up to the end of
\* that step (the block of the read-modify-write or the whole stripe, and all
\* blocks before) whose data slot is present has been written by a
\* successful pwrite and is on the back-end.
C20_RefusedWriteWritten ==
    (/\ res.op = "write" /\ res.ret # 0
     /\ \A k \in DOMAIN res.log : res.log[k].ok)
    => LET last  == Len(res.steps)
           first == res.offset \div res.c.bs
           stop  == res.steps[last].offset \div res.c.bs + StepBlocks(res, last)
       IN /\ res.c.missing[res.steps[last].parity]
          /\ \A L \in first .. (stop - 1) :
                LET p == WritePlacement(res.c, L * res.c.bs)
                IN ~res.c.missing[p.data_disk]
                   => /\ BlockAt(disk, res.c, p.data_disk, p.stripe)
                            = res.data[L - first + 1]
                      /\ \E k \in DOMAIN res.log :
                            /\ res.log[k].kind = "pwrite"
                            /\ res.log[k].dev = p.data_disk
                            /\ res.log[k].off = p.phys_offset

\* a write of two blocks by read-modify-write, every call successful: the
\* first block went through with its parity, the second was written and then
\* refused for its missing parity slot
C20_Witness ==
    /\ res.op = "write" /\ res.ret # 0
    /\ \A k \in DOMAIN res.log : res.log[k].ok
    /\ Len(res.steps) = 2
    /\ res.steps[1].path = "rmw" /\ res.steps[2].path = "rmw"
    /\ res.log[Len(res.log)].kind = "pwrite"
    /\ res.log[Len(res.log)].step = 2

====
